---- MODULE Spec2Model ----
(***************************************************************************)
(* A model of BalatroEnv (pylatro_ai/balatro_env.py): the Gymnasium        *)
(* adapter around the Balatro engine.  The engine is an external           *)
(* collaborator: every result it returns (status, phase, legal actions)    *)
(* and every snapshot it offers (absolute score and money, or a failing    *)
(* query) is a nondeterministic input of the Reset and Step actions.       *)
(*                                                                         *)
(* Each call (Reset, Step, StepNoEngine, Close) is one action that runs the *)
(* whole handler and leaves what it returned in ret, info and observation, *)
(* and what it began with in pre; Returned is the caller taking the result *)
(* before its next call.  The stale baselines that survive reset() let the *)
(* tracked score drift without limit, so behaviours are followed for       *)
(* MaxCalls calls.                                                         *)
(*                                                                         *)
(* _suppress_output(), the guard around every engine call, is followed     *)
(* statement by statement in guard, each system call succeeding or         *)
(* raising.  A second environment of the same process is kept in other,    *)
(* and its twin in a process of its own in alone.  When episodes are       *)
(* followed the twin is a new environment started from the same seed, and  *)
(* tally keeps what the steps of the episode were given and paid.          *)
(*                                                                         *)
(* Two components stand apart from the environment: SafeWandbCallback      *)
(* (train_balatro_ppo.py) in callback, the wrapped callback returning or   *)
(* raising at will, and BalatroWikiScraper.run_full_scrape()               *)
(* (scrape_balatro_wiki.py) in scraper, each of its steps succeeding or    *)
(* failing at will.                                                        *)
(*                                                                         *)
(* Rewards are floats in the source; here they are integers counted in     *)
(* hundredths (1.0 = 100), so STEP_REWARD = -0.01 is -1.                   *)
(***************************************************************************)
EXTENDS Integers, Sequences, FiniteSets, TLC

\* ------------------------------------------------------------------ bounds

\* Largest absolute score the engine's snapshot reports.
MaxScore == 1
\* Largest absolute money the engine's snapshot reports.
MaxMoney == 1
\* Largest action index the engine offers.
MaxIdx == 1
\* The calls of reset(), step() and close() that are followed.
MaxCalls == 5
\* The constructor's max_episode_steps argument.
MaxEpisodeSteps == 2
\* The guarded engine calls that are followed.
MaxGuardCalls == 2

\* The calls made on an environment whose episodes are followed.
MaxEpisodeCalls == 6
\* The entries a scraped file holds.
MaxPages == 3
\* The runs of run_full_scrape() on one scraper.
MaxScrapeRuns == 3

\* -------------------------------------------------------- program constants

\* spaces.Discrete(100), MultiBinary(100): the action index space.
K == 100
\* BLIND_COMPLETION_BASE_REWARD = 1000.0, in hundredths.
BLIND_COMPLETION_BASE_REWARD == 100000
\* STEP_REWARD = -0.01, in hundredths.
STEP_REWARD == -1
\* $1 = 250 scoring points, in hundredths.
MONEY_POINTS == 25000
\* invalid_action_penalty = -10.0, in hundredths.
INVALID_PENALTY == -1000
\* invalid_action_penalty = -0.5 (no valid action cached), in hundredths.
FALLBACK_PENALTY == -50
\* invalid_action_penalty = 0.0.
NO_PENALTY == 0

phases == <<"Shop", "ShopPackSelection", "BlindSelect", "Playing", "RoundEnd", "GameOver">>

\* The phase an engine result may carry: one of phases, or None.
AllPhases == {phases[i] : i \in 1..Len(phases)} \cup {"None"}

Statuses == {"NeedsInput", "Progressed", "Finished"}

\* ------------------------------------------------------------------- state

VARIABLES
    engine,               \* self.engine: "None" or "Engine"
    engine_state,         \* how far the engine handle got: "none", "created",
                          \* "started" or "probed"
    engine_legal,         \* the legal actions of the engine's latest result
    current_score,        \* self.current_score
    current_money,        \* self.current_money
    previous_score,       \* self.previous_score
    previous_money,       \* self.previous_money
    step_count,           \* self.step_count
    blind_started,        \* self.blind_started
    blind_finished,       \* self.blind_finished
    prev_phase,           \* self.prev_phase
    last_valid_actions,   \* self.last_valid_actions
    has_blind_at_start,   \* whether blind_*_at_start are attributes of self yet
    blind_score_at_start, \* self.blind_score_at_start
    blind_money_at_start, \* self.blind_money_at_start
    authoritative,        \* whether blind_*_at_start came from a snapshot
    step_result,          \* the engine result of the last reset()/step()
    engine_arg,           \* what the last engine.step call received
    ret,                  \* what the last call computed and returned
    info,                 \* the info dict the last call returned
    observation,          \* the observation the last call returned
    pre,                  \* the tracked state when the last call began
    calls,                \* the calls made so far
    shown,                \* the mask and the valid_actions the caller last
                          \* received from reset()/step()
    cwd,                  \* the process's working directory
    quiet,                \* self.quiet
    guard,                \* the process's output channels and the position of
                          \* _suppress_output() around one engine call
    other,                \* a second environment of the same process
    alone,                \* that second environment in a process of its own,
                          \* given the same calls
    tally,                \* the second environment's episode: what its steps
                          \* were given and what they paid, since its reset()
    callback,             \* a SafeWandbCallback and its latest hook
    scraper               \* a BalatroWikiScraper and its latest run_full_scrape()

tracked == <<current_score, current_money, previous_score, previous_money,
             step_count, blind_started, blind_finished, prev_phase,
             last_valid_actions, has_blind_at_start, blind_score_at_start,
             blind_money_at_start>>

\* The environment's own state, and what stands outside it.
env == <<engine, engine_state, engine_legal, tracked, authoritative, step_result,
         engine_arg, ret, info, observation, pre, calls, shown, cwd>>

\* The training callback and the wiki scraper, which share nothing with an
\* environment.
apart == <<callback, scraper>>

outside_env == <<quiet, guard, alone, tally, apart>>

outside_guard == <<env, quiet, other, alone, tally, apart>>

vars == <<env, outside_env, other>>

\* ----------------------------------------------------------------- helpers

Range(s) == {s[i] : i \in 1..Len(s)}

Max0(x) == IF x > 0 THEN x ELSE 0

\* The engine's action indices taken last to first.
ActionIndicesReversed(result) ==
    [i \in 1..Len(result.actions) |-> result.actions[Len(result.actions) + 1 - i]]

\* [action_tuple[0] for action_tuple in step_result.actions]
ActionIndices(result) == result.actions

\* The tracked fields as one record.
TrackedState ==
    [current_score |-> current_score, current_money |-> current_money,
     previous_score |-> previous_score, previous_money |-> previous_money,
     step_count |-> step_count, blind_started |-> blind_started,
     blind_finished |-> blind_finished, prev_phase |-> prev_phase,
     last_valid_actions |-> last_valid_actions,
     has_blind_at_start |-> has_blind_at_start,
     blind_score_at_start |-> blind_score_at_start,
     blind_money_at_start |-> blind_money_at_start]

\* What a call began with: the tracked state, the engine handle and the
\* legal actions of the engine result that preceded the call.
PreState ==
    [t |-> TrackedState, engine |-> engine, engine_legal |-> engine_legal,
     engine_state |-> engine_state, authoritative |-> authoritative,
     shown |-> shown, cwd |-> cwd]

\* ------------------------------------------------------- action validator

\* A test of the action against the positions of the list, not its entries.
IsValidActionByPosition(action, legal) == action \in 0..(Len(legal) - 1)

\* `action in self.last_valid_actions`
IsValidAction(action, legal) == action \in Range(legal)

\* A validator that takes the smallest cached action instead of the first.
ResolveActionSmallest(action, legal) ==
    IF ~IsValidAction(action, legal)
    THEN IF legal # <<>>
         THEN [mapped_action |-> CHOOSE m \in Range(legal) : \A x \in Range(legal) : m <= x,
               invalid_action_penalty |-> INVALID_PENALTY]
         ELSE [mapped_action |-> 0, invalid_action_penalty |-> FALLBACK_PENALTY]
    ELSE [mapped_action |-> action, invalid_action_penalty |-> NO_PENALTY]

\* A validator that passes the requested action through unchanged.
ResolveActionUnfiltered(action, legal) ==
    [mapped_action |-> action, invalid_action_penalty |-> NO_PENALTY]

\* step(): the requested action against the cached legal actions.
ResolveAction(action, legal) ==
    IF ~IsValidAction(action, legal)
    THEN IF legal # <<>>
         THEN [mapped_action |-> legal[1], invalid_action_penalty |-> INVALID_PENALTY]
         ELSE [mapped_action |-> 0, invalid_action_penalty |-> FALLBACK_PENALTY]
    ELSE [mapped_action |-> action, invalid_action_penalty |-> NO_PENALTY]

\* info["action_mapped"]
ActionMapped(action, mapped_action) == action # mapped_action

\* ------------------------------------------------------------ phase tracker

\* _try_get_score_money() came back without a value.
NoSnapshot == [ok |-> FALSE, score |-> 0, money |-> 0]

\* The branch of step() that queried no snapshot.
NotQueried == [ok |-> FALSE, score |-> 0, money |-> 0, queried |-> FALSE]

Queried(snap) == [ok |-> snap.ok, score |-> snap.score, money |-> snap.money, queried |-> TRUE]

\* A BlindSelect branch that forgets to clear blind_finished.
OnBlindSelectKeepFinished(t) == [t EXCEPT !.blind_started = FALSE]

\* step_result.phase == "BlindSelect"
OnBlindSelect(t) == [t EXCEPT !.blind_started = FALSE, !.blind_finished = FALSE]

\* An entry into Playing that takes its baselines from the tracked values
\* whatever the snapshot gives.
OnEnterPlayingFromCurrent(t, snap) ==
    [t EXCEPT !.blind_started = TRUE, !.has_blind_at_start = TRUE,
              !.blind_score_at_start = t.current_score,
              !.blind_money_at_start = t.current_money]

\* step_result.phase == "Playing" and self.prev_phase != "Playing"
OnEnterPlaying(t, snap) ==
    IF snap.ok
    THEN [t EXCEPT !.blind_started = TRUE, !.has_blind_at_start = TRUE,
                   !.blind_score_at_start = snap.score,
                   !.blind_money_at_start = snap.money]
    ELSE [t EXCEPT !.blind_started = TRUE, !.has_blind_at_start = TRUE,
                   !.blind_score_at_start = t.current_score,
                   !.blind_money_at_start = t.current_money]

\* A refresh that zeroes the tracked values when the snapshot fails.
RelativeZeroOnFailure(t, snap) ==
    IF snap.ok
    THEN [t EXCEPT !.current_score = snap.score - t.blind_score_at_start,
                   !.current_money = snap.money - t.blind_money_at_start]
    ELSE [t EXCEPT !.current_score = 0, !.current_money = 0]

\* current_score/current_money from the snapshot, relative to the blind's start.
Relative(t, snap) ==
    IF snap.ok
    THEN [t EXCEPT !.current_score = snap.score - t.blind_score_at_start,
                   !.current_money = snap.money - t.blind_money_at_start]
    ELSE t

\* A RoundEnd branch that refreshes the values and leaves blind_finished.
OnRoundEndNoFinish(t, snap) == Relative(t, snap)

\* step_result.phase == "RoundEnd" and self.blind_started
OnRoundEnd(t, snap) == Relative([t EXCEPT !.blind_finished = TRUE], snap)

\* step_result.phase == "Playing" and self.blind_started
OnPlaying(t, snap) == Relative(t, snap)

\* A step in no branch of the tracker that clears the lifecycle flags.
UntrackedClearsFlags(t) == [t EXCEPT !.blind_started = FALSE, !.blind_finished = FALSE]

\* No branch of the if/elif chain is taken: nothing is assigned.
Untracked(t) == t

\* An entry into Playing recognised only when it comes from BlindSelect.
EntersPlayingFromBlindSelect(t, result) ==
    result.phase = "Playing" /\ t.prev_phase = "BlindSelect"

\* The branch that captures the baselines is the one taken.
EntersPlaying(t, result) == result.phase = "Playing" /\ t.prev_phase # "Playing"

\* Reading blind_score_at_start before any blind set it raises AttributeError.
ReadsUnsetBaseline(t, result, snap) ==
    /\ result.phase # "BlindSelect"
    /\ ~(result.phase = "Playing" /\ t.prev_phase # "Playing")
    /\ result.phase \in {"RoundEnd", "Playing"}
    /\ t.blind_started
    /\ snap.ok
    /\ ~t.has_blind_at_start

\* step(): the update of the tracking fields from the engine result, up to
\* and including self.prev_phase = step_result.phase.
TrackerUpdate(t, result, snap) ==
    LET u == IF result.phase = "BlindSelect"
               THEN [t |-> OnBlindSelect(t), snap |-> NotQueried]
             ELSE IF EntersPlaying(t, result)
               THEN [t |-> OnEnterPlaying(t, snap), snap |-> Queried(snap)]
             ELSE IF result.phase = "RoundEnd" /\ t.blind_started
               THEN [t |-> OnRoundEnd(t, snap), snap |-> Queried(snap)]
             ELSE IF result.phase = "Playing" /\ t.blind_started
               THEN [t |-> OnPlaying(t, snap), snap |-> Queried(snap)]
             ELSE [t |-> Untracked(t), snap |-> NotQueried]
    IN  [t |-> [u.t EXCEPT !.prev_phase = result.phase], snap |-> u.snap]

\* --------------------------------------------------------------- the reward

\* A money reward of one point for each unit of money.
MoneyRewardUnscaled(t) == 100 * Max0(t.current_money - t.previous_money)

\* A score reward that lets a loss count.
ScoreRewardSigned(t) == 100 * (t.current_score - t.previous_score)

\* score_reward, in hundredths
ScoreReward(t) == 100 * Max0(t.current_score - t.previous_score)

\* money_reward, in hundredths
MoneyReward(t) == MONEY_POINTS * Max0(t.current_money - t.previous_money)

\* A bonus given on every RoundEnd.
BlindBonusAnyRoundEnd(t, result) ==
    IF result.phase = "RoundEnd" THEN BLIND_COMPLETION_BASE_REWARD ELSE 0

\* The extra reward of _calculate_reward.
BlindBonus(t, result) ==
    IF result.phase = "RoundEnd" /\ t.blind_started /\ t.blind_finished
    THEN BLIND_COMPLETION_BASE_REWARD
    ELSE 0

\* A reward that leaves the step reward out.
CalculateRewardNoStep(t, result) ==
    ScoreReward(t) + MoneyReward(t) + BlindBonus(t, result)

\* _calculate_reward(step_result)
CalculateReward(t, result) ==
    ScoreReward(t) + MoneyReward(t) + STEP_REWARD + BlindBonus(t, result)

\* ------------------------------------------------------- episode controller

\* A done check that ends the episode on every RoundEnd.
IsDoneAnyRoundEnd(t, result) ==
    \/ result.status = "Finished"
    \/ result.phase = "RoundEnd"
    \/ t.step_count >= MaxEpisodeSteps

\* A done check that lets the step after the budget be the first to end.
IsDoneAfterBudget(t, result) ==
    \/ result.status = "Finished"
    \/ result.phase = "RoundEnd" /\ t.blind_started
    \/ t.step_count > MaxEpisodeSteps

\* _is_done(step_result)
IsDone(t, result) ==
    \/ result.status = "Finished"
    \/ result.phase = "RoundEnd" /\ t.blind_started
    \/ t.step_count >= MaxEpisodeSteps

\* A truncation flag raised when the step budget is used up.
TruncatedAtBudget(t) == t.step_count >= MaxEpisodeSteps

\* truncated = False
Truncated(t) == FALSE

\* ------------------------------------------------------ observation encoder

\* phase_idx of _extract_observation: 0 for a phase that is None or unknown.
\* A phase index counted from 1.
PhaseIdxOneBased(phase) ==
    IF \E i \in 1..Len(phases) : phases[i] = phase
    THEN CHOOSE i \in 1..Len(phases) : phases[i] = phase
    ELSE 0

PhaseIdx(phase) ==
    IF \E i \in 1..Len(phases) : phases[i] = phase
    THEN (CHOOSE i \in 1..Len(phases) : phases[i] = phase) - 1
    ELSE 0

\* A mask that drops the last index of the array as well.
AvailableActionsShort(result) ==
    {IF a >= 0 THEN a ELSE K + a : a \in {x \in Range(result.actions) : x < K - 1}}

\* The indices of available_actions that hold 1 (a negative index counts
\* from the end of the array).
AvailableActions(result) ==
    {IF a >= 0 THEN a ELSE K + a : a \in {x \in Range(ActionIndices(result)) : x < K}}

Flag(b) == IF b THEN 1 ELSE 0

\* _get_game_info(), with phase_idx set by _extract_observation
GetGameInfo(t, phase_idx) ==
    [score |-> t.current_score, previous_score |-> t.previous_money,
     money |-> t.current_money, previous_money |-> t.previous_money,
     ante |-> 1, round |-> 1, hands_remaining |-> 4, discards_remaining |-> 3,
     blind_started |-> Flag(t.blind_started),
     blind_finished |-> Flag(t.blind_finished),
     step_count |-> t.step_count, phase_idx |-> phase_idx]

\* _extract_observation(step_result)
ExtractObservation(t, result) ==
    LET g == GetGameInfo(t, PhaseIdx(result.phase))
    IN  [phase |-> PhaseIdx(result.phase),
         available_actions |-> AvailableActions(result),
         game_info |-> <<g.score, g.money, g.ante, g.round, g.hands_remaining,
                         g.discards_remaining, g.blind_started, g.blind_finished,
                         g.step_count, PhaseIdx(result.phase)>>]

\* ------------------------------------------------------------ the calls

NoResult == [status |-> "None", phase |-> "None", actions |-> <<>>, finished |-> "None"]

NoCall == [called |-> FALSE, probe |-> FALSE, action |-> 0]

NoRet ==
    [op |-> "idle", action |-> 0, mapped_action |-> 0, invalid_action_penalty |-> 0,
     score_reward |-> 0, money_reward |-> 0, blind_bonus |-> 0, reward |-> 0,
     terminated |-> FALSE, truncated |-> FALSE, snap |-> NotQueried,
     engine_calls |-> <<>>]

NoInfo == [none |-> TRUE]

NoObservation == [phase |-> 0, available_actions |-> {}, game_info |-> <<>>]

NoPre == [none |-> TRUE]

\* No episode of the second environment is being followed.
NoTally ==
    [live |-> FALSE, probe_playing |-> FALSE, entries |-> 0,
     score_paid |-> 0, money_paid |-> 0, score_seen |-> 0, money_seen |-> 0,
     ended |-> FALSE]

\* Nothing was returned to the caller yet.
NoShown == [any |-> FALSE, available_actions |-> {}, valid_actions |-> <<>>]

\* The mask and the list of legal actions a reset()/step() handed back.
Shown(obs, inf) ==
    [any |-> TRUE, available_actions |-> obs.available_actions,
     valid_actions |-> inf.valid_actions]

\* A _reset_engine() that goes back to the entry directory after the run
\* start, outside any finally clause.
CwdRestoredOnSuccess(entry_cwd, raised) ==
    IF raised THEN "engine_dir" ELSE entry_cwd

\* _reset_engine(): the working directory it leaves.  original_cwd is read
\* on entry, the body runs inside engine_dir, and the finally clause goes
\* back to original_cwd whether or not the body raised.
CwdAfterResetEngine(entry_cwd, raised) ==
    LET original_cwd == entry_cwd
    IN  original_cwd

\* __init__: the tracking fields of a new environment, as a record.
InitTracked ==
    [current_score |-> 0, current_money |-> 0,
     previous_score |-> 0, previous_money |-> 0,
     step_count |-> 0, blind_started |-> FALSE,
     blind_finished |-> FALSE, prev_phase |-> "None",
     last_valid_actions |-> <<>>,
     has_blind_at_start |-> FALSE,
     blind_score_at_start |-> 0,
     blind_money_at_start |-> 0]

\* What a call on an environment returned to its caller.
NoOut == [op |-> "idle"]

\* BalatroEnv(...): a second environment, before its first reset().
NewInstance == [t |-> InitTracked, engine |-> "None", calls |-> 0, out |-> NoOut]

\* A cache of legal actions that is one list shared by every environment.
OtherAfterSharedCache(o, t) == [o EXCEPT !.t.last_valid_actions = t.last_valid_actions]

\* What a call on this environment, leaving the tracked state t, makes of
\* another environment: nothing, every tracking field and the engine handle
\* being attributes of self.
OtherAfter(o, t) == o

SetTracked(t) ==
    /\ current_score' = t.current_score
    /\ current_money' = t.current_money
    /\ previous_score' = t.previous_score
    /\ previous_money' = t.previous_money
    /\ step_count' = t.step_count
    /\ blind_started' = t.blind_started
    /\ blind_finished' = t.blind_finished
    /\ prev_phase' = t.prev_phase
    /\ last_valid_actions' = t.last_valid_actions
    /\ has_blind_at_start' = t.has_blind_at_start
    /\ blind_score_at_start' = t.blind_score_at_start
    /\ blind_money_at_start' = t.blind_money_at_start

\* __init__: the tracking fields of a new environment.
InitEnv ==
    /\ engine = "None"
    /\ engine_state = "none"
    /\ engine_legal = <<>>
    /\ authoritative = FALSE
    /\ current_score = 0
    /\ current_money = 0
    /\ previous_score = 0
    /\ previous_money = 0
    /\ step_count = 0
    /\ blind_started = FALSE
    /\ blind_finished = FALSE
    /\ prev_phase = "None"
    /\ last_valid_actions = <<>>
    /\ has_blind_at_start = FALSE
    /\ blind_score_at_start = 0
    /\ blind_money_at_start = 0
    /\ step_result = NoResult
    /\ engine_arg = NoCall
    /\ ret = NoRet
    /\ info = NoInfo
    /\ observation = NoObservation
    /\ pre = NoPre
    /\ calls = 0
    /\ shown = NoShown
    /\ cwd = "cwd"
    /\ other = NewInstance
    /\ alone = NewInstance
    /\ tally = NoTally

\* A _reset_engine() that clears blind_started as well.
ResetEngineClearsStarted(t) ==
    [t EXCEPT !.current_score = 0, !.current_money = 0, !.step_count = 0,
              !.previous_score = 0, !.previous_money = 0,
              !.prev_phase = "None", !.last_valid_actions = <<>>,
              !.blind_started = FALSE]

\* _reset_engine(): the tracking variables it resets.
ResetEngine(t) ==
    [t EXCEPT !.current_score = 0, !.current_money = 0, !.step_count = 0,
              !.previous_score = 0, !.previous_money = 0,
              !.prev_phase = "None", !.last_valid_actions = <<>>]

\* _reset_engine(): the calls it makes to the engine, in order.
ResetEngineCalls ==
    <<"BalatroEngine", "set_selected_deck", "set_selected_stake",
      "start_new_run_with_selections">>

\* _reset_engine(): os.chdir(engine_dir)
ChdirCall == "os.chdir"

\* reset(): engine.step(None)
ProbeCall == "step(None)"

\* step(): engine.step(mapped_action)
ActionCall == "step(action)"

\* reset() on the tracked state t, its probe giving result: the tracked
\* state it leaves, the observation and the info dict it returns.
ResetCall(t, result) ==
    LET t1 == ResetEngine(t)
        t2 == [t1 EXCEPT !.last_valid_actions = ActionIndices(result),
                         !.prev_phase = result.phase]
    IN  [t |-> t2,
         observation |-> ExtractObservation(t1, result),
         info |-> [phase |-> result.phase, status |-> result.status,
                   valid_actions |-> t2.last_valid_actions]]

\* reset(): a new engine, the probe step_result = engine.step(None), the
\* observation, the cached actions, the info dict and prev_phase.
Reset(result) ==
    /\ ret.op = "idle"
    /\ calls < MaxCalls
    /\ calls' = calls + 1
    /\ LET c == ResetCall(TrackedState, result)
       IN  /\ SetTracked(c.t)
           /\ observation' = c.observation
           /\ info' = c.info
           /\ shown' = Shown(c.observation, c.info)
    /\ engine' = "Engine"
    /\ engine_state' = "probed"
    /\ engine_legal' = result.actions
    /\ engine_arg' = [called |-> TRUE, probe |-> TRUE, action |-> 0]
    /\ step_result' = result
    /\ ret' = [NoRet EXCEPT !.op = "reset",
                            !.engine_calls = Append(ResetEngineCalls, ProbeCall)]
    /\ cwd' = CwdAfterResetEngine(cwd, FALSE)
    /\ pre' = PreState
    /\ UNCHANGED <<authoritative, outside_env>>
    /\ other' = OtherAfter(other, TrackedState')

\* The calls of reset() that may raise: the engine's constructor, its two
\* setters, the start of the run and the probe.
ResetStages == {ChdirCall} \cup Range(ResetEngineCalls) \cup {ProbeCall}

\* The calls reset() has made when the call `stage` raises.
CallsUpTo(stage) ==
    LET all == Append(ResetEngineCalls, ProbeCall)
    IN  IF stage = ChdirCall
        THEN <<>>
        ELSE SubSeq(all, 1, CHOOSE i \in 1..Len(all) : all[i] = stage)

\* reset() when a call to the engine raises: self.engine is assigned as soon
\* as the constructor returns, the tracking variables are reset only after
\* the run started, and the exception reaches the caller.
ResetRaises(stage) ==
    /\ ret.op = "idle"
    /\ calls < MaxCalls
    /\ calls' = calls + 1
    /\ IF stage \in {ChdirCall, "BalatroEngine"}
       THEN UNCHANGED <<engine, engine_state, tracked>>
       ELSE IF stage = ProbeCall
       THEN /\ engine' = "Engine"
            /\ engine_state' = "started"
            /\ SetTracked(ResetEngine(TrackedState))
       ELSE /\ engine' = "Engine"
            /\ engine_state' = "created"
            /\ UNCHANGED tracked
    /\ ret' = [NoRet EXCEPT !.op = "reset_raised", !.engine_calls = CallsUpTo(stage)]
    /\ cwd' = CwdAfterResetEngine(cwd, stage # ProbeCall)
    /\ pre' = PreState
    /\ UNCHANGED <<engine_legal, authoritative, step_result, engine_arg, info,
                   observation, shown, outside_env>>
    /\ other' = OtherAfter(other, TrackedState')

\* The advance that carries the score over and leaves the money behind.
AdvancePreviousScoreOnly(t) == [t EXCEPT !.previous_score = t.current_score]

\* self.previous_score = self.current_score, and the same for money
AdvancePrevious(t) ==
    [t EXCEPT !.previous_score = t.current_score,
              !.previous_money = t.current_money]

\* step(action) on the tracked state t, the engine giving result and snap:
\* the tracked state it leaves and what it returns.
StepCall(t, action, result, snap) ==
    LET t0 == [t EXCEPT !.step_count = @ + 1]
        res == ResolveAction(action, t0.last_valid_actions)
        u == TrackerUpdate(t0, result, snap)
        t2 == [u.t EXCEPT !.last_valid_actions = ActionIndices(result)]
        bonus == BlindBonus(t2, result)
        t3 == AdvancePrevious(t2)
    IN  [t0 |-> t0,
         t |-> t3,
         observation |-> ExtractObservation(u.t, result),
         ret |-> [op |-> "step", action |-> action,
                  mapped_action |-> res.mapped_action,
                  invalid_action_penalty |-> res.invalid_action_penalty,
                  score_reward |-> ScoreReward(t2),
                  money_reward |-> MoneyReward(t2),
                  blind_bonus |-> bonus,
                  reward |-> CalculateReward(t2, result) + res.invalid_action_penalty,
                  terminated |-> IsDone(t3, result),
                  truncated |-> Truncated(t3),
                  snap |-> u.snap,
                  engine_calls |-> <<ActionCall>>],
         info |-> [phase |-> result.phase, status |-> result.status,
                   score |-> t3.current_score, money |-> t3.current_money,
                   action_mapped |-> ActionMapped(action, res.mapped_action),
                   original_action |-> action,
                   mapped_action |-> res.mapped_action,
                   valid_actions |-> t3.last_valid_actions,
                   finished |-> result.finished]]

\* step(action) on a live engine.
Step(action, result, snap) ==
    /\ ret.op = "idle"
    /\ engine = "Engine"
    /\ calls < MaxCalls
    /\ calls' = calls + 1
    /\ LET c == StepCall(TrackedState, action, result, snap)
       IN  /\ ~ReadsUnsetBaseline(c.t0, result, snap)
           /\ SetTracked(c.t)
           /\ engine_arg' = [called |-> TRUE, probe |-> FALSE, action |-> c.ret.mapped_action]
           /\ observation' = c.observation
           /\ ret' = c.ret
           /\ authoritative' = IF EntersPlaying(c.t0, result)
                                THEN snap.ok
                                ELSE authoritative
           /\ info' = c.info
           /\ shown' = Shown(c.observation, c.info)
    /\ engine_legal' = result.actions
    /\ step_result' = result
    /\ pre' = PreState
    /\ UNCHANGED <<engine, engine_state, cwd, outside_env>>
    /\ other' = OtherAfter(other, TrackedState')

\* step(action) with no engine (before the first reset(), or after close()):
\* step_count is incremented and self.engine.step raises AttributeError.
StepNoEngine(action) ==
    /\ ret.op = "idle"
    /\ engine = "None"
    /\ calls < MaxCalls
    /\ calls' = calls + 1
    /\ step_count' = step_count + 1
    /\ ret' = [NoRet EXCEPT !.op = "step_raised", !.action = action]
    /\ pre' = PreState
    /\ UNCHANGED <<engine, engine_state, engine_legal, authoritative,
                   current_score, current_money, previous_score,
                   previous_money, blind_started, blind_finished, prev_phase,
                   last_valid_actions, has_blind_at_start, blind_score_at_start,
                   blind_money_at_start, step_result, engine_arg, info, observation,
                   shown, cwd, outside_env>>
    /\ other' = OtherAfter(other, TrackedState')

\* close()
Close ==
    /\ ret.op = "idle"
    /\ engine = "Engine"
    /\ calls < MaxCalls
    /\ calls' = calls + 1
    /\ engine' = "None"
    /\ engine_state' = "none"
    /\ engine_legal' = <<>>
    /\ ret' = [NoRet EXCEPT !.op = "close"]
    /\ pre' = PreState
    /\ UNCHANGED <<tracked, authoritative, step_result, engine_arg, info, observation,
                   shown, cwd, outside_env>>
    /\ other' = OtherAfter(other, TrackedState')

\* The caller takes what the call returned; the next call starts from the
\* tracked state alone.
Returned ==
    /\ ret.op # "idle"
    /\ ret' = NoRet
    /\ info' = NoInfo
    /\ observation' = NoObservation
    /\ pre' = NoPre
    /\ step_result' = NoResult
    /\ engine_arg' = NoCall
    /\ UNCHANGED <<engine, engine_state, engine_legal, tracked, authoritative, calls,
                   shown, cwd, outside_env, other>>

\* ------------------------------------------------ a second environment

\* reset() on the environment o
InstanceReset(o, result) ==
    LET c == ResetCall(o.t, result)
    IN  [t |-> c.t, engine |-> "Engine", calls |-> o.calls + 1,
         out |-> [op |-> "reset", observation |-> c.observation, info |-> c.info,
                  ret |-> NoRet]]

\* step(action) on the environment o
InstanceStep(o, action, result, snap) ==
    LET c == StepCall(o.t, action, result, snap)
    IN  [t |-> c.t, engine |-> o.engine, calls |-> o.calls + 1,
         out |-> [op |-> "step", observation |-> c.observation, info |-> c.info,
                  ret |-> c.ret]]

\* reset(): an episode begins; nothing was paid, and the engine's absolute
\* score and money are not below zero.
TallyReset(result) ==
    [NoTally EXCEPT !.live = TRUE, !.probe_playing = (result.phase = "Playing")]

\* step(action) on the tracked state t in the episode y: the episode is
\* followed up to the step that ends its first blind, for as long as every
\* step finds a snapshot whose score and money are not below those before.
\* It keeps the score_reward and money_reward paid so far, the latest
\* absolute score and money, and how many steps entered Playing.
TallyStep(y, t, action, result, snap) ==
    LET c == StepCall(t, action, result, snap)
    IN  IF y.live /\ ~y.ended /\ snap.ok
           /\ snap.score >= y.score_seen /\ snap.money >= y.money_seen
        THEN [y EXCEPT !.entries = IF EntersPlaying(c.t0, result) /\ @ < 2
                                   THEN @ + 1 ELSE @,
                       !.score_paid = @ + c.ret.score_reward,
                       !.money_paid = @ + c.ret.money_reward,
                       !.score_seen = snap.score,
                       !.money_seen = snap.money,
                       !.ended = (result.phase = "RoundEnd" /\ c.t0.blind_started)]
        ELSE NoTally

\* reset() on the second environment, between two calls on the first; its
\* twin in a process of its own is given the same call and the same probe
\* result.
OtherReset(result) ==
    /\ ret.op = "idle"
    /\ calls < MaxCalls
    /\ calls' = calls + 1
    /\ other' = InstanceReset(other, result)
    /\ alone' = InstanceReset(alone, result)
    /\ tally' = TallyReset(result)
    /\ UNCHANGED <<engine, engine_state, engine_legal, tracked, authoritative,
                   step_result, engine_arg, ret, info, observation, pre, shown, cwd,
                   quiet, guard, apart>>

\* step(action) on the second environment and on its twin.
OtherStep(action, result, snap) ==
    /\ ret.op = "idle"
    /\ other.engine = "Engine"
    /\ calls < MaxCalls
    /\ calls' = calls + 1
    /\ ~ReadsUnsetBaseline(other.t, result, snap)
    /\ other' = InstanceStep(other, action, result, snap)
    /\ alone' = InstanceStep(alone, action, result, snap)
    /\ tally' = TallyStep(tally, other.t, action, result, snap)
    /\ UNCHANGED <<engine, engine_state, engine_legal, tracked, authoritative,
                   step_result, engine_arg, ret, info, observation, pre, shown, cwd,
                   quiet, guard, apart>>

\* reset() starting an episode of the second environment, which may have
\* run episodes before; the twin is a new environment given the same seed,
\* so that its engine answers the probe alike.
EpisodeReset(result) ==
    /\ other.calls < MaxEpisodeCalls
    /\ other' = InstanceReset(other, result)
    /\ alone' = InstanceReset(NewInstance, result)
    /\ tally' = TallyReset(result)
    /\ UNCHANGED <<env, quiet, guard, apart>>

\* step(action) in that episode and in the twin's: the engines, started
\* from one seed and given the same actions, answer alike.
EpisodeStep(action, result, snap) ==
    /\ other.engine = "Engine"
    /\ other.calls < MaxEpisodeCalls
    /\ ~ReadsUnsetBaseline(other.t, result, snap)
    /\ other' = InstanceStep(other, action, result, snap)
    /\ alone' = InstanceStep(alone, action, result, snap)
    /\ tally' = TallyStep(tally, other.t, action, result, snap)
    /\ UNCHANGED <<env, quiet, guard, apart>>

\* ------------------------------------------------- the output suppression

\* The descriptors _suppress_output() opens: the two duplicates, the discard
\* sink, and the two discard files put in place of sys.stdout and sys.stderr.
Descriptors ==
    {"original_stdout_fd", "original_stderr_fd", "devnull", "sys.stdout", "sys.stderr"}

\* No guard is running: descriptors 1 and 2 and the two Python streams
\* refer to the process's own output, and the guard holds nothing.
GuardIdle ==
    [pc |-> "idle",
     fd |-> [stdout |-> "stdout", stderr |-> "stderr"],
     sys |-> [stdout |-> "stdout", stderr |-> "stderr"],
     held |-> {},
     leaked |-> 0,
     closes |-> [d \in Descriptors |-> 0],
     exc |-> "None",
     trigger |-> "None",
     exit |-> "none",
     entry |-> [fd |-> [stdout |-> "stdout", stderr |-> "stderr"],
                sys |-> [stdout |-> "stdout", stderr |-> "stderr"]],
     calls |-> 0]

\* A descriptor is opened; one is closed (os.close, or a file's close()).
Opened(g, d) == [g EXCEPT !.held = @ \cup {d}]

Closed(g, d) == [g EXCEPT !.held = @ \ {d}, !.closes[d] = @ + 1]

Goto(g, pc) == [g EXCEPT !.pc = pc]

\* The statement raises e: it is the exception in flight from now on, and
\* the triggering one when no other was raised before it in this guard.
Raise(g, e, pc) ==
    [g EXCEPT !.exc = e, !.trigger = IF @ = "None" THEN e ELSE @, !.pc = pc]

\* A cleanup that runs only when the guarded call returns.
AfterYieldSkipsCleanup(raised) == IF raised THEN "except_restore_stdout" ELSE "close_sys_stdout"

\* try: yield / finally: the cleanup runs however the guarded call ends.
AfterYield(raised) == "close_sys_stdout"

\* An error handler that goes on to its next statement after a failing one.
AfterHandlerStepGoesOn(next, ok) == next

\* try: ... except: pass around the handler's four statements: the first
\* that raises ends them.
AfterHandlerStep(next, ok) == IF ok THEN next ELSE "reraise"

\* The end of the finally block: the exception in flight, if any, goes on to
\* the except clause of the outer try.
AfterFinally(g) == IF g.exc = "None" THEN "returned" ELSE "except_restore_stdout"

\* with self._suppress_output(): the guard is entered around an engine call.
GuardEnter ==
    /\ guard.pc = "idle"
    /\ guard.calls < MaxGuardCalls
    /\ guard' = [guard EXCEPT !.pc = IF quiet THEN "dup_stdout" ELSE "yield_plain",
                              !.closes = [d \in Descriptors |-> 0],
                              !.exc = "None", !.trigger = "None", !.exit = "none",
                              !.entry = [fd |-> guard.fd, sys |-> guard.sys],
                              !.calls = @ + 1]
    /\ UNCHANGED outside_guard

\* original_stdout_fd = os.dup(1), outside the try
DupStdout ==
    /\ guard.pc = "dup_stdout"
    /\ \E ok \in BOOLEAN :
          guard' = IF ok THEN Goto(Opened(guard, "original_stdout_fd"), "dup_stderr")
                         ELSE Raise(guard, "dup_stdout", "raised")
    /\ UNCHANGED outside_guard

\* original_stderr_fd = os.dup(2), outside the try
DupStderr ==
    /\ guard.pc = "dup_stderr"
    /\ \E ok \in BOOLEAN :
          guard' = IF ok THEN Goto(Opened(guard, "original_stderr_fd"), "open_devnull")
                         ELSE Raise(guard, "dup_stderr", "raised")
    /\ UNCHANGED outside_guard

\* devnull = os.open(os.devnull, os.O_WRONLY)
OpenDevnull ==
    /\ guard.pc = "open_devnull"
    /\ \E ok \in BOOLEAN :
          guard' = IF ok THEN Goto(Opened(guard, "devnull"), "redirect_stdout")
                         ELSE Raise(guard, "open_devnull", "except_restore_stdout")
    /\ UNCHANGED outside_guard

\* os.dup2(devnull, 1)
RedirectStdout ==
    /\ guard.pc = "redirect_stdout"
    /\ \E ok \in BOOLEAN :
          guard' = IF ok THEN Goto([guard EXCEPT !.fd.stdout = "devnull"], "redirect_stderr")
                         ELSE Raise(guard, "redirect_stdout", "except_restore_stdout")
    /\ UNCHANGED outside_guard

\* os.dup2(devnull, 2)
RedirectStderr ==
    /\ guard.pc = "redirect_stderr"
    /\ \E ok \in BOOLEAN :
          guard' = IF ok THEN Goto([guard EXCEPT !.fd.stderr = "devnull"], "replace_stdout")
                         ELSE Raise(guard, "redirect_stderr", "except_restore_stdout")
    /\ UNCHANGED outside_guard

\* original_stdout = sys.stdout; sys.stdout = open(os.devnull, 'w')
ReplaceStdout ==
    /\ guard.pc = "replace_stdout"
    /\ \E ok \in BOOLEAN :
          guard' = IF ok THEN Goto(Opened([guard EXCEPT !.sys.stdout = "devnull"],
                                          "sys.stdout"), "replace_stderr")
                         ELSE Raise(guard, "replace_stdout", "except_restore_stdout")
    /\ UNCHANGED outside_guard

\* original_stderr = sys.stderr; sys.stderr = open(os.devnull, 'w')
ReplaceStderr ==
    /\ guard.pc = "replace_stderr"
    /\ \E ok \in BOOLEAN :
          guard' = IF ok THEN Goto(Opened([guard EXCEPT !.sys.stderr = "devnull"],
                                          "sys.stderr"), "yield")
                         ELSE Raise(guard, "replace_stderr", "except_restore_stdout")
    /\ UNCHANGED outside_guard

\* yield inside try/finally: the guarded engine call returns or raises.
Yield ==
    /\ guard.pc = "yield"
    /\ \E raised \in BOOLEAN :
          guard' = IF raised THEN Raise(guard, "call", AfterYield(raised))
                             ELSE Goto(guard, AfterYield(raised))
    /\ UNCHANGED outside_guard

\* finally: sys.stdout.close()
CloseSysStdout ==
    /\ guard.pc = "close_sys_stdout"
    /\ \E ok \in BOOLEAN :
          guard' = IF ok THEN Goto(Closed(guard, "sys.stdout"), "close_sys_stderr")
                         ELSE Raise(Closed(guard, "sys.stdout"), "close_sys_stdout",
                                    "except_restore_stdout")
    /\ UNCHANGED outside_guard

\* finally: sys.stderr.close()
CloseSysStderr ==
    /\ guard.pc = "close_sys_stderr"
    /\ \E ok \in BOOLEAN :
          guard' = IF ok THEN Goto(Closed(guard, "sys.stderr"), "restore_sys")
                         ELSE Raise(Closed(guard, "sys.stderr"), "close_sys_stderr",
                                    "except_restore_stdout")
    /\ UNCHANGED outside_guard

\* finally: sys.stdout = original_stdout; sys.stderr = original_stderr
RestoreSys ==
    /\ guard.pc = "restore_sys"
    /\ guard' = Goto([guard EXCEPT !.sys = guard.entry.sys], "restore_stdout")
    /\ UNCHANGED outside_guard

\* finally: os.dup2(original_stdout_fd, 1)
RestoreStdout ==
    /\ guard.pc = "restore_stdout"
    /\ \E ok \in BOOLEAN :
          guard' = IF ok THEN Goto([guard EXCEPT !.fd.stdout = guard.entry.fd.stdout],
                                   "restore_stderr")
                         ELSE Raise(guard, "restore_stdout", "except_restore_stdout")
    /\ UNCHANGED outside_guard

\* finally: os.dup2(original_stderr_fd, 2)
RestoreStderr ==
    /\ guard.pc = "restore_stderr"
    /\ \E ok \in BOOLEAN :
          guard' = IF ok THEN Goto([guard EXCEPT !.fd.stderr = guard.entry.fd.stderr],
                                   "close_stdout_dup")
                         ELSE Raise(guard, "restore_stderr", "except_restore_stdout")
    /\ UNCHANGED outside_guard

\* finally: os.close(original_stdout_fd)
CloseStdoutDup ==
    /\ guard.pc = "close_stdout_dup"
    /\ \E ok \in BOOLEAN :
          guard' = IF ok THEN Goto(Closed(guard, "original_stdout_fd"), "close_stderr_dup")
                         ELSE Raise(Closed(guard, "original_stdout_fd"), "close_stdout_dup",
                                    "except_restore_stdout")
    /\ UNCHANGED outside_guard

\* finally: os.close(original_stderr_fd)
CloseStderrDup ==
    /\ guard.pc = "close_stderr_dup"
    /\ \E ok \in BOOLEAN :
          guard' = IF ok THEN Goto(Closed(guard, "original_stderr_fd"), "close_devnull")
                         ELSE Raise(Closed(guard, "original_stderr_fd"), "close_stderr_dup",
                                    "except_restore_stdout")
    /\ UNCHANGED outside_guard

\* finally: os.close(devnull), and the end of the finally block
CloseDevnull ==
    /\ guard.pc = "close_devnull"
    /\ \E ok \in BOOLEAN :
          guard' = IF ok THEN Goto(Closed(guard, "devnull"), AfterFinally(guard))
                         ELSE Raise(Closed(guard, "devnull"), "close_devnull",
                                    "except_restore_stdout")
    /\ UNCHANGED outside_guard

\* except Exception: os.dup2(original_stdout_fd, 1); on a closed descriptor
\* the call raises, and so it may on an open one.
ExceptRestoreStdout ==
    /\ guard.pc = "except_restore_stdout"
    /\ \E ok \in BOOLEAN :
          LET done == ok /\ "original_stdout_fd" \in guard.held
          IN  guard' = Goto(IF done THEN [guard EXCEPT !.fd.stdout = guard.entry.fd.stdout]
                                    ELSE guard,
                            AfterHandlerStep("except_restore_stderr", done))
    /\ UNCHANGED outside_guard

\* except Exception: os.dup2(original_stderr_fd, 2)
ExceptRestoreStderr ==
    /\ guard.pc = "except_restore_stderr"
    /\ \E ok \in BOOLEAN :
          LET done == ok /\ "original_stderr_fd" \in guard.held
          IN  guard' = Goto(IF done THEN [guard EXCEPT !.fd.stderr = guard.entry.fd.stderr]
                                    ELSE guard,
                            AfterHandlerStep("except_close_stdout_dup", done))
    /\ UNCHANGED outside_guard

\* except Exception: os.close(original_stdout_fd)
ExceptCloseStdoutDup ==
    /\ guard.pc = "except_close_stdout_dup"
    /\ \E ok \in BOOLEAN :
          LET done == ok /\ "original_stdout_fd" \in guard.held
          IN  guard' = Goto(Closed(guard, "original_stdout_fd"),
                            AfterHandlerStep("except_close_stderr_dup", done))
    /\ UNCHANGED outside_guard

\* except Exception: os.close(original_stderr_fd)
ExceptCloseStderrDup ==
    /\ guard.pc = "except_close_stderr_dup"
    /\ \E ok \in BOOLEAN :
          LET done == ok /\ "original_stderr_fd" \in guard.held
          IN  guard' = Goto(Closed(guard, "original_stderr_fd"),
                            AfterHandlerStep("reraise", done))
    /\ UNCHANGED outside_guard

\* except Exception: raise, the exception in flight
Reraise ==
    /\ guard.pc = "reraise"
    /\ guard' = Goto(guard, "raised")
    /\ UNCHANGED outside_guard

\* else: yield, with quiet false
YieldPlain ==
    /\ guard.pc = "yield_plain"
    /\ \E raised \in BOOLEAN :
          guard' = IF raised THEN Raise(guard, "call", "raised") ELSE Goto(guard, "returned")
    /\ UNCHANGED outside_guard

\* Control leaves the guard, by return or with the exception in flight; the
\* descriptors it still holds stay open in the process.
GuardLeave ==
    /\ guard.pc \in {"returned", "raised"}
    /\ guard' = [guard EXCEPT !.pc = "idle", !.exit = guard.pc,
                              !.leaked = @ + Cardinality(guard.held),
                              !.held = {}]
    /\ UNCHANGED outside_guard

\* ------------------------------------------------- the training callback

\* self.max_errors
max_errors == 10

\* The exceptions the wrapped WandbCallback raises when its socket fails.
Exceptions == {"BrokenPipeError", "TimeoutError"}

\* What the wrapped callback's _on_step() does: it returns a bool or raises.
StepOutcomes == {"True", "False"} \cup Exceptions

\* What the wrapped callback's other hooks do: they return None or raise.
HookOutcomes == {"None"} \cup Exceptions

\* No hook of the callback has run yet.
NoHook ==
    [hook |-> "none", was_disabled |-> FALSE, invoked |-> FALSE, wrapped |-> "none",
     result |-> "none", warned |-> FALSE, count_before |-> 0]

\* SafeWandbCallback(wandb_callback): failed counts the calls of the wrapped
\* _on_step() that raised.
NewCallback == [error_count |-> 0, disabled |-> FALSE, failed |-> 0, last |-> NoHook]

\* A hook that ran: whether it found the callback disabled, whether it
\* called the wrapped callback and what that did, and what came out of the
\* hook (its return value, or the exception it let through).
Hook(cb, hook, invoked, wrapped, result, warned) ==
    [hook |-> hook, was_disabled |-> cb.disabled, invoked |-> invoked,
     wrapped |-> wrapped, result |-> result, warned |-> warned,
     count_before |-> cb.error_count]

\* A threshold that is passed only by the error after max_errors.
DisablesAfterMax(count) == count > max_errors

\* `self.error_count >= self.max_errors`
Disables(count) == count >= max_errors

\* An _on_step() with no try around the wrapped call.
StepReturnUnguarded(outcome) == outcome

\* _on_step(): what it returns when the wrapped _on_step() did `outcome`.
StepReturn(outcome) == IF outcome \in Exceptions THEN "True" ELSE outcome

\* _on_step() on the callback cb
OnStepCall(cb, outcome) ==
    IF cb.disabled
    THEN [cb EXCEPT !.last = Hook(cb, "_on_step", FALSE, "none", "True", FALSE)]
    ELSE IF outcome \in Exceptions
    THEN LET n == cb.error_count + 1
         IN  [error_count |-> n,
              disabled |-> IF Disables(n) THEN TRUE ELSE cb.disabled,
              failed |-> cb.failed + 1,
              last |-> Hook(cb, "_on_step", TRUE, outcome, StepReturn(outcome), n <= 3)]
    ELSE [cb EXCEPT !.last = Hook(cb, "_on_step", TRUE, outcome, StepReturn(outcome), FALSE)]

\* _on_training_end(), _on_rollout_end() and _on_rollout_start() on the
\* callback cb: an exception of the wrapped hook is dropped and not counted.
OnHookCall(cb, hook, outcome) ==
    IF cb.disabled
    THEN [cb EXCEPT !.last = Hook(cb, hook, FALSE, "none", "None", FALSE)]
    ELSE [cb EXCEPT !.last = Hook(cb, hook, TRUE, outcome, "None", FALSE)]

OnStep(outcome) ==
    /\ callback' = OnStepCall(callback, outcome)
    /\ UNCHANGED <<env, quiet, guard, other, alone, tally, scraper>>

OnTrainingEnd(outcome) ==
    /\ callback' = OnHookCall(callback, "_on_training_end", outcome)
    /\ UNCHANGED <<env, quiet, guard, other, alone, tally, scraper>>

OnRolloutEnd(outcome) ==
    /\ callback' = OnHookCall(callback, "_on_rollout_end", outcome)
    /\ UNCHANGED <<env, quiet, guard, other, alone, tally, scraper>>

OnRolloutStart(outcome) ==
    /\ callback' = OnHookCall(callback, "_on_rollout_start", outcome)
    /\ UNCHANGED <<env, quiet, guard, other, alone, tally, scraper>>

\* ------------------------------------------------------ the wiki scraper

\* run_full_scrape(): the five steps that may stop it, in its order.
Steps ==
    <<"check_dependencies", "setup_fandom_scraper", "configure_scraper",
      "run_scraper", "copy_results">>

\* The steps whose except clause names CalledProcessError (and, for the
\* first, FileNotFoundError) alone: another exception leaves the step.
Raising == {"check_dependencies", "setup_fandom_scraper", "run_scraper"}

\* What each step may do.
StepResults ==
    {o \in [Range(Steps) -> {"True", "False", "raises"}] :
        \A st \in Range(Steps) : o[st] = "raises" => st \in Raising}

\* What analyze_results() finds of a scraped file: none, one json.load or
\* the counting fails on, or one holding n entries.
Missing == [kind |-> "missing", entries |-> 0]

Unreadable == [kind |-> "unreadable", entries |-> 0]

Files == {Missing, Unreadable} \cup {[kind |-> "list", entries |-> n] : n \in 0..MaxPages}

Exists(file) == file.kind # "missing"

Entries(file) == file.entries

\* analyze_results(): the dictionary is returned whatever the files hold;
\* total_links is a key only when the history file was read.
AnalyzeResults(data, history) ==
    [data_file_exists |-> Exists(data),
     history_file_exists |-> Exists(history),
     total_pages |-> Entries(data),
     sample_pages |-> IF Entries(data) < 5 THEN Entries(data) ELSE 5,
     has_total_links |-> history.kind = "list",
     total_links |-> Entries(history)]

NoAnalysis == [none |-> TRUE]

\* BalatroWikiScraper(): no run_full_scrape() yet.
NewScraper ==
    [runs |-> 0, executed |-> <<>>, results |-> <<>>, returned |-> "none",
     files |-> <<Missing, Missing>>, analysis |-> NoAnalysis]

\* The first step that does not return True, or 0.
FirstFailure(outcome) ==
    IF \E i \in 1..Len(Steps) : outcome[Steps[i]] # "True"
    THEN CHOOSE i \in 1..Len(Steps) :
             /\ outcome[Steps[i]] # "True"
             /\ \A j \in 1..(i - 1) : outcome[Steps[j]] = "True"
    ELSE 0

\* A run_full_scrape() that reports what analyze_results() could not read.
ReturnAfterAnalysisChecked(data, history) ==
    IF Unreadable \in {data, history} THEN "False" ELSE "True"

\* run_full_scrape(): `return True` after the summary is printed.
ReturnAfterAnalysis(data, history) == "True"

\* run_full_scrape() on the scraper w
FullScrape(w, outcome, data, history) ==
    LET f == FirstFailure(outcome)
        n == IF f = 0 THEN Len(Steps) ELSE f
        done == SubSeq(Steps, 1, n)
    IN  IF f = 0
        THEN [runs |-> w.runs + 1,
              executed |-> Append(done, "analyze_results"),
              results |-> [i \in 1..n |-> outcome[Steps[i]]],
              returned |-> ReturnAfterAnalysis(data, history),
              files |-> <<data, history>>,
              analysis |-> AnalyzeResults(data, history)]
        ELSE [runs |-> w.runs + 1,
              executed |-> done,
              results |-> [i \in 1..n |-> outcome[Steps[i]]],
              returned |-> IF outcome[Steps[f]] = "False" THEN "False" ELSE "raised",
              files |-> <<Missing, Missing>>,
              analysis |-> NoAnalysis]

RunFullScrape(outcome, data, history) ==
    /\ scraper.runs < MaxScrapeRuns
    /\ scraper' = FullScrape(scraper, outcome, data, history)
    /\ UNCHANGED <<env, quiet, guard, other, alone, tally, callback>>

\* A new environment, quiet by default, beside a new callback and a new
\* scraper.
InitApart == callback = NewCallback /\ scraper = NewScraper

Init == InitEnv /\ quiet = TRUE /\ guard = GuardIdle /\ InitApart

\* ------------------------------------------------------------- the engine

Result(status, phase, actions) ==
    [status |-> status, phase |-> phase, actions |-> actions,
     finished |-> IF status = "Finished" THEN "Outcome" ELSE "None"]

\* The snapshots game_state() may give: a failing query, or absolute values.
Snapshots ==
    {NoSnapshot} \cup {[ok |-> TRUE, score |-> s, money |-> m] :
                        s \in 0..MaxScore, m \in 0..MaxMoney}

\* The legal-action lists of an engine: the arrangements, without repeats,
\* of the subsets of 0..MaxIdx.
ActionLists ==
    UNION {{f \in [1..n -> 0..MaxIdx] : \A i, j \in 1..n : i # j => f[i] # f[j]} :
           n \in 0..(MaxIdx + 1)}

\* The actions a caller may ask for: legal ones, stale ones, a negative one
\* and one outside the action space.
Requested == {-1} \cup 0..(MaxIdx + 1) \cup {K}

\* ------------------------------------------------------ the specifications

\* One call of the environment's interface, or the caller taking its result,
\* with the caller's actions, the engine's results and its snapshots drawn
\* from the given sets.
NextOn(requests, results, snapshots) ==
    \/ \E r \in results : Reset(r)
    \/ \E a \in requests, r \in results, s \in snapshots : Step(a, r, s)
    \/ \E a \in requests : StepNoEngine(a)
    \/ Close
    \/ Returned

\* Score and money tracking: an engine that moves between the shop and the
\* phases of a blind cycle, its snapshots giving any absolute score and money
\* or failing.
TrackResults ==
    {Result("NeedsInput", ph, l) :
        ph \in {"Shop", "BlindSelect", "Playing", "RoundEnd"}, l \in {<<0>>}}

Next == NextOn({0, 1}, TrackResults, Snapshots)

Spec == Init /\ [][Next]_vars

\* Action resolution: every caller request against every legal-action list.
ResolveResults ==
    {Result("NeedsInput", ph, l) :
        ph \in {"Playing", "RoundEnd"}, l \in ActionLists}

NextResolve == NextOn(Requested, ResolveResults, {NoSnapshot})

SpecResolve == Init /\ [][NextResolve]_vars

\* Phases and termination: every status with every phase, present or absent.
PhaseResults == {Result(st, ph, <<0>>) : st \in Statuses, ph \in AllPhases}

NextPhases == NextOn({0, 1}, PhaseResults, {NoSnapshot})

SpecPhases == Init /\ [][NextPhases]_vars

\* The blind lifecycle over every phase the engine may report, present,
\* absent or unknown to the adapter, with every snapshot.
LifecycleResults ==
    {Result("NeedsInput", ph, l) : ph \in AllPhases \cup {"Unknown"}, l \in {<<0>>}}

\* The snapshots of the lifecycle: a failing query, nothing scored yet, and
\* the largest score and money.
LifecycleSnapshots ==
    {NoSnapshot, [ok |-> TRUE, score |-> 0, money |-> 0],
     [ok |-> TRUE, score |-> MaxScore, money |-> MaxMoney]}

NextLifecycle == NextOn({0}, LifecycleResults, LifecycleSnapshots)

SpecLifecycle == Init /\ [][NextLifecycle]_vars

\* The legal-action lists an observation encodes: none, small indices, the
\* last index of the mask and indices past it.
ObserveLists ==
    {<<>>, <<0>>, <<MaxIdx, K - 1>>, <<K>>, <<K - 1, K, K + 1>>, <<K + MaxIdx, 0>>}

ObserveResults ==
    {Result("NeedsInput", ph, l) : ph \in {"BlindSelect", "Playing"}, l \in ObserveLists}

NextObserve == NextOn({0}, ObserveResults, {NoSnapshot})

SpecObserve == Init /\ [][NextObserve]_vars

\* The calls made to the engine, with a reset() that any of them may end by
\* raising.
ProtocolResults ==
    {Result("NeedsInput", ph, l) : ph \in {"BlindSelect", "Playing"}, l \in {<<0>>}}

NextProtocol ==
    \/ NextOn({0}, ProtocolResults, {NoSnapshot})
    \/ \E stage \in ResetStages : ResetRaises(stage)

SpecProtocol == Init /\ [][NextProtocol]_vars

\* Two environments in one process, the calls on one interleaved in any
\* order with the calls on the other, their engines giving results that
\* differ in phase and in legal list.
InstanceResults ==
    {Result("NeedsInput", "BlindSelect", <<0, 1>>),
     Result("NeedsInput", "Playing", <<0>>),
     Result("NeedsInput", "RoundEnd", <<1>>)}

InstanceSnapshots == {NoSnapshot, [ok |-> TRUE, score |-> MaxScore, money |-> MaxMoney]}

NextInstances ==
    \/ NextOn({0}, InstanceResults, InstanceSnapshots)
    \/ \E r \in InstanceResults : OtherReset(r)
    \/ \E r \in InstanceResults, sn \in InstanceSnapshots : OtherStep(0, r, sn)

SpecInstances == Init /\ [][NextInstances]_vars

\* The output-suppression guard around one engine call after another, with
\* quiet set or not, every system call of the guard succeeding or raising
\* and the guarded call returning or raising.
InitGuard == InitEnv /\ quiet \in BOOLEAN /\ guard = GuardIdle /\ InitApart

NextGuard ==
    \/ GuardEnter
    \/ DupStdout \/ DupStderr \/ OpenDevnull
    \/ RedirectStdout \/ RedirectStderr \/ ReplaceStdout \/ ReplaceStderr
    \/ Yield
    \/ CloseSysStdout \/ CloseSysStderr \/ RestoreSys
    \/ RestoreStdout \/ RestoreStderr
    \/ CloseStdoutDup \/ CloseStderrDup \/ CloseDevnull
    \/ ExceptRestoreStdout \/ ExceptRestoreStderr
    \/ ExceptCloseStdoutDup \/ ExceptCloseStderrDup
    \/ Reraise
    \/ YieldPlain
    \/ GuardLeave

SpecGuard == InitGuard /\ [][NextGuard]_vars

\* Following episodes of one environment from reset() to reset(), beside a
\* new environment started from the same seed.
EpisodeResults ==
    {Result("NeedsInput", ph, <<0>>) : ph \in {"Shop", "Playing", "RoundEnd"}}

EpisodeSnapshots ==
    {NoSnapshot} \cup {[ok |-> TRUE, score |-> x, money |-> x] : x \in 0..MaxScore}

NextEpisodes ==
    \/ \E r \in EpisodeResults : EpisodeReset(r)
    \/ \E r \in EpisodeResults, s \in EpisodeSnapshots : EpisodeStep(0, r, s)

SpecEpisodes == Init /\ [][NextEpisodes]_vars

\* The training callback, the wrapped callback returning or raising at will.
NextCallback ==
    \/ \E o \in StepOutcomes : OnStep(o)
    \/ \E o \in HookOutcomes : OnTrainingEnd(o)
    \/ \E o \in HookOutcomes : OnRolloutEnd(o)
    \/ \E o \in HookOutcomes : OnRolloutStart(o)

SpecCallback == Init /\ [][NextCallback]_vars

\* The scraper, each step succeeding or failing at will.
NextScraper ==
    \E o \in StepResults, data \in Files, history \in Files : RunFullScrape(o, data, history)

SpecScraper == Init /\ [][NextScraper]_vars

\* A well-behaved engine at reset(): the probe after a run start is never
\* inside a blind, while the steps move through every phase.
ProbeResults == {r \in TrackResults : r.phase # "Playing"}

NextProbed ==
    \/ \E r \in ProbeResults : Reset(r)
    \/ \E a \in {0, 1}, r \in TrackResults, s \in InstanceSnapshots : Step(a, r, s)
    \/ \E a \in {0, 1} : StepNoEngine(a)
    \/ Close
    \/ Returned

SpecProbed == Init /\ [][NextProbed]_vars

\* ---------------------------------------------------------------- claims

\* The legal list a step() validated against, and what it asked for.
CachedLegal == pre.t.last_valid_actions

\* C1: step(a) against the cached legal list L: a legal action reaches the
\* engine unchanged with no penalty; an illegal one is replaced by L[0] (the
\* first in the engine's order) and costs exactly 10.0; with L empty the
\* engine receives 0 and the cost is exactly 0.5.  The penalty is what the
\* reward holds beyond its score, money, step and bonus parts, and info
\* reports the requested action and the one the engine received.
C1_ActionResolution ==
    ret.op = "step" =>
        /\ engine_arg.called /\ ~engine_arg.probe
        /\ ret.action \in Range(CachedLegal) =>
               engine_arg.action = ret.action /\ ret.invalid_action_penalty = 0
        /\ ret.action \notin Range(CachedLegal) /\ CachedLegal # <<>> =>
               engine_arg.action = CachedLegal[1] /\ ret.invalid_action_penalty = -1000
        /\ CachedLegal = <<>> =>
               engine_arg.action = 0 /\ ret.invalid_action_penalty = -50
        /\ ret.reward - (ret.score_reward + ret.money_reward + STEP_REWARD + ret.blind_bonus)
               = ret.invalid_action_penalty
        /\ info.original_action = ret.action
        /\ info.mapped_action = engine_arg.action

\* An illegal request was replaced by the first cached action, which is not
\* the smallest one.
C1_Witness ==
    /\ ret.op = "step"
    /\ Len(CachedLegal) = 2
    /\ CachedLegal[1] > CachedLegal[2]
    /\ ret.action \notin Range(CachedLegal)
    /\ engine_arg.action = CachedLegal[1]
    /\ ret.invalid_action_penalty = -1000

\* C2: whatever integer is requested, the action step() passes to the engine
\* is one of the legal actions of the engine's immediately preceding result,
\* or 0 when that result offered none; a step() that raises does so for want
\* of an engine, not because of the action's value.
C2_EngineReceivesLegalAction ==
    /\ ret.op = "step" =>
           /\ CachedLegal = pre.engine_legal
           /\ pre.engine_legal # <<>> => engine_arg.action \in Range(pre.engine_legal)
           /\ pre.engine_legal = <<>> => engine_arg.action = 0
    /\ ret.op = "step_raised" => pre.engine = "None"

\* A request outside the action space, and a negative one, reached the engine
\* as a legal action.
C2_Witness ==
    /\ ret.op = "step"
    /\ ret.action \in {-1, K}
    /\ pre.engine_legal # <<>>
    /\ engine_arg.action \in Range(pre.engine_legal)

\* C3: info.action_mapped is true exactly when the requested action is not in
\* the cached legal list (for every request, 0 included, when the list is
\* empty), so a remap penalty is applied iff action_mapped is true.
C3_MappedFlagIffNotLegal ==
    ret.op = "step" =>
        /\ info.action_mapped <=> ret.action \notin Range(CachedLegal)
        /\ info.action_mapped <=> ret.invalid_action_penalty # 0

\* C4: terminated holds iff the result's status is Finished, or its phase is
\* RoundEnd while blind_started holds after the update, or step_count after
\* the increment has reached max_episode_steps.
C4_TerminationEquivalence ==
    ret.op = "step" =>
        (ret.terminated <=>
            \/ step_result.status = "Finished"
            \/ step_result.phase = "RoundEnd" /\ blind_started
            \/ step_count >= MaxEpisodeSteps)

\* A RoundEnd result with no blind started did not end the episode.
C4_Witness ==
    /\ ret.op = "step"
    /\ step_result.phase = "RoundEnd"
    /\ ~blind_started
    /\ ~ret.terminated

\* C5: truncated is false on every step(), the step that ends the episode
\* on the step budget alone included.
C5_NeverTruncated == ret.op = "step" => ret.truncated = FALSE

\* The step budget alone ended the episode.
C5_Witness ==
    /\ ret.op = "step"
    /\ ret.terminated
    /\ step_count >= MaxEpisodeSteps
    /\ step_result.status # "Finished"
    /\ step_result.phase # "RoundEnd"
    /\ ~ret.truncated

C7_RewardFloor ==
    ret.op = "step" =>
        /\ ret.score_reward >= 0
        /\ ret.money_reward >= 0
        /\ ret.reward - STEP_REWARD - ret.blind_bonus - ret.invalid_action_penalty >= 0

\* The tracked score and money went down in a step.
C7_Witness ==
    /\ ret.op = "step"
    /\ current_score < pre.t.previous_score
    /\ current_money < pre.t.previous_money
    /\ ret.score_reward = 0
    /\ ret.money_reward = 0

\* The step before this one, in the same episode and blind cycle, ended with
\* phase RoundEnd, blind_started and blind_finished: it added the bonus.
PriorStepAddedBonus ==
    /\ pre.t.step_count > 0
    /\ pre.t.prev_phase = "RoundEnd"
    /\ pre.t.blind_started
    /\ pre.t.blind_finished

\* C8: the blind bonus is added on at most one step of a blind cycle: a step
\* that follows, in the same cycle, a step that added it does not add it
\* again.
C8_SingleBonus ==
    ret.op = "step" /\ step_result.phase # "BlindSelect" /\ PriorStepAddedBonus =>
        ret.blind_bonus = 0

\* C9: after reset() the tracked state is the initial one whatever happened
\* before, and the observation reports blind_started = 0, blind_finished = 0.
C9_ResetRestoresInitialState ==
    ret.op = "reset" =>
        /\ ~blind_started
        /\ ~blind_finished
        /\ current_score = 0 /\ current_money = 0
        /\ previous_score = 0 /\ previous_money = 0
        /\ step_count = 0
        /\ prev_phase = step_result.phase
        /\ last_valid_actions = step_result.actions
        /\ observation.game_info[7] = 0
        /\ observation.game_info[8] = 0

\* C10: after a step() whose result phase is BlindSelect, blind_started and
\* blind_finished are false.
C10_BlindSelectClearsFlags ==
    ret.op = "step" /\ step_result.phase = "BlindSelect" =>
        ~blind_started /\ ~blind_finished

\* A BlindSelect result arrived with both flags set.
C10_Witness ==
    /\ ret.op = "step"
    /\ step_result.phase = "BlindSelect"
    /\ pre.t.blind_started
    /\ pre.t.blind_finished
    /\ ~blind_started
    /\ ~blind_finished

\* The step() entered Playing: its result phase is Playing and the phase of
\* the result before it was another one, or absent.
EnteredPlaying ==
    ret.op = "step" /\ step_result.phase = "Playing" /\ pre.t.prev_phase # "Playing"

\* C11: after a step() whose result phase is Playing while the previous
\* phase was not Playing, blind_started is true, and when the snapshot was
\* available the two baselines are the engine's absolute score and money.
C11_EnterPlayingCapturesBaseline ==
    EnteredPlaying =>
        /\ blind_started
        /\ ret.snap.ok => /\ blind_score_at_start = ret.snap.score
                          /\ blind_money_at_start = ret.snap.money

\* Playing was entered with a snapshot whose score and money differ from the
\* tracked values and from the baselines held before.
C11_Witness ==
    /\ EnteredPlaying
    /\ ret.snap.ok
    /\ ret.snap.score # pre.t.current_score
    /\ ret.snap.money # pre.t.current_money
    /\ blind_score_at_start = ret.snap.score
    /\ blind_money_at_start = ret.snap.money
    /\ blind_started

\* C12: after a step() whose result phase is RoundEnd while blind_started
\* held before it, blind_finished is true, and when the snapshot was
\* available current_score and current_money are the engine's absolute
\* values minus the baselines.
C12_RoundEndFinishesBlind ==
    ret.op = "step" /\ step_result.phase = "RoundEnd" /\ pre.t.blind_started =>
        /\ blind_finished
        /\ ret.snap.ok => /\ current_score = ret.snap.score - pre.t.blind_score_at_start
                          /\ current_money = ret.snap.money - pre.t.blind_money_at_start

\* RoundEnd arrived in a started, unfinished blind with a snapshot that moved
\* the score.
C12_Witness ==
    /\ ret.op = "step"
    /\ step_result.phase = "RoundEnd"
    /\ pre.t.blind_started
    /\ ~pre.t.blind_finished
    /\ ret.snap.ok
    /\ current_score # pre.t.current_score
    /\ blind_finished

\* C13: after every step() that leaves blind_started true with result phase
\* Playing or RoundEnd and an available snapshot, current_score and
\* current_money are the engine's absolute values minus the baselines, the
\* step that enters Playing and a second blind without a reset included.
C13_BlindRelative ==
    (/\ ret.op = "step"
     /\ blind_started
     /\ step_result.phase \in {"Playing", "RoundEnd"}
     /\ ret.snap.ok) =>
        /\ current_score = ret.snap.score - blind_score_at_start
        /\ current_money = ret.snap.money - blind_money_at_start

\* The step() took none of the tracker's branches by the claim's list: its
\* phase is Shop, ShopPackSelection, GameOver or absent, or RoundEnd while
\* blind_started was false.
OutsideLifecycle ==
    /\ ret.op = "step"
    /\ \/ step_result.phase \in {"Shop", "ShopPackSelection", "GameOver", "None"}
       \/ step_result.phase = "RoundEnd" /\ ~pre.t.blind_started

\* C14: a step() whose result phase is Shop, ShopPackSelection, GameOver or
\* absent, or RoundEnd while blind_started is false, leaves blind_started,
\* blind_finished, both baselines, current_score and current_money as they
\* were.
C14_OtherPhasesKeepLifecycle ==
    OutsideLifecycle =>
        /\ blind_started = pre.t.blind_started
        /\ blind_finished = pre.t.blind_finished
        /\ has_blind_at_start = pre.t.has_blind_at_start
        /\ blind_score_at_start = pre.t.blind_score_at_start
        /\ blind_money_at_start = pre.t.blind_money_at_start
        /\ current_score = pre.t.current_score
        /\ current_money = pre.t.current_money

\* Such a step was taken inside a started blind holding a score and a
\* baseline.
C14_Witness ==
    /\ OutsideLifecycle
    /\ step_result.phase \in {"ShopPackSelection", "GameOver", "None"}
    /\ pre.t.blind_started
    /\ pre.t.current_score # 0
    /\ pre.t.blind_score_at_start # 0
    /\ blind_started
    /\ current_score = pre.t.current_score

\* C15: once the baselines have been captured from a successful snapshot, no
\* later step() whose snapshot query fails changes them, an entry into
\* Playing with a failing snapshot included; and an available snapshot is
\* the one the baselines are taken from.
C15_FallbackKeepsAuthoritativeBaseline ==
    /\ (ret.op = "step" /\ pre.authoritative /\ ~ret.snap.ok) =>
           /\ blind_score_at_start = pre.t.blind_score_at_start
           /\ blind_money_at_start = pre.t.blind_money_at_start
    /\ (EnteredPlaying /\ ret.snap.ok) =>
           /\ authoritative
           /\ blind_score_at_start = ret.snap.score
           /\ blind_money_at_start = ret.snap.money

\* The snapshot query of the step() was made and failed.
SnapshotFailed == ret.op = "step" /\ ret.snap.queried /\ ~ret.snap.ok

\* C16: a failing snapshot query never makes step() raise, and on a step
\* from Playing to Playing or to RoundEnd whose query failed current_score
\* and current_money stay as they were, so the score and money components
\* of the step's reward are 0.
C16_FailingSnapshotKeepsValues ==
    /\ ret.op = "step_raised" => pre.engine = "None"
    /\ (/\ SnapshotFailed
        /\ \/ step_result.phase = "Playing" /\ pre.t.prev_phase = "Playing"
           \/ step_result.phase = "RoundEnd") =>
           /\ current_score = pre.t.current_score
           /\ current_money = pre.t.current_money
           /\ ret.score_reward = 0
           /\ ret.money_reward = 0

\* The query failed on a Playing to Playing step of a blind that holds a
\* score and money.
C16_Witness ==
    /\ SnapshotFailed
    /\ step_result.phase = "Playing"
    /\ pre.t.prev_phase = "Playing"
    /\ pre.t.current_score # 0
    /\ pre.t.current_money # 0
    /\ current_score = pre.t.current_score
    /\ ret.score_reward = 0

\* The probe result of a well-behaved engine: its first decision point asks
\* for input in BlindSelect and offers at least one action.
WellBehavedProbe ==
    /\ step_result.status = "NeedsInput"
    /\ step_result.phase = "BlindSelect"
    /\ step_result.actions # <<>>

\* C17: reset() returns info.phase and info.valid_actions equal to the phase
\* and the ordered action indices of the probe result; with a well-behaved
\* engine that is phase BlindSelect and a non-empty list, on every reset.
C17_ResetEntryPoint ==
    ret.op = "reset" =>
        /\ info.phase = step_result.phase
        /\ info.valid_actions = step_result.actions
        /\ WellBehavedProbe =>
               info.phase = "BlindSelect" /\ info.valid_actions # <<>>

\* A reset() that ended an episode already under way met a well-behaved
\* probe offering two actions, the larger index first.
C17_Witness ==
    /\ ret.op = "reset"
    /\ pre.t.step_count > 0
    /\ WellBehavedProbe
    /\ Len(step_result.actions) = 2
    /\ step_result.actions[1] > step_result.actions[2]
    /\ info.valid_actions = step_result.actions
    /\ info.phase = "BlindSelect"

\* C18: each reset() calls, in this order and once each, the engine's
\* constructor, deck setter, stake setter, start_run and a probe step with no
\* action; each step() calls the engine's step once, with an action; and no
\* action is passed to an engine that has not been probed.
C18_EngineCallProtocol ==
    /\ ret.op = "reset" =>
           ret.engine_calls = <<"BalatroEngine", "set_selected_deck", "set_selected_stake",
                                "start_new_run_with_selections", "step(None)">>
    /\ ret.op = "step" =>
           /\ ret.engine_calls = <<"step(action)">>
           /\ engine_arg.called /\ ~engine_arg.probe
           /\ pre.engine_state = "probed"

\* C19: in every observation of reset() or step(), for every index i in
\* [0, K), available_actions[i] is 1 exactly when i is among the action
\* indices of the encoded result; indices of K and more set no bit.
C19_ObservationMask ==
    ret.op \in {"reset", "step"} =>
        /\ \A i \in 0..(K - 1) :
               i \in observation.available_actions <=> i \in Range(step_result.actions)
        /\ observation.available_actions \subseteq 0..(K - 1)

\* The encoded result offered the last index of the mask and the two
\* indices after it.
C19_Witness ==
    /\ ret.op = "step"
    /\ {K - 1, K, K + 1} \subseteq Range(step_result.actions)
    /\ observation.available_actions = {K - 1}

GuardOutcome ==
    IF guard.pc = "idle" THEN guard.exit
    ELSE IF guard.pc \in {"returned", "raised"} THEN guard.pc
    ELSE "none"

\* C21: with quiet set, when control leaves the guard by normal return or by
\* an exception of the guarded call, descriptors 1 and 2 and sys.stdout and
\* sys.stderr refer to what they referred to at entry, already at the moment
\* the exception goes to the caller.
C21_SuppressionRestores ==
    (/\ quiet
     /\ \/ GuardOutcome = "returned"
        \/ GuardOutcome = "raised" /\ guard.exc = "call") =>
        /\ guard.fd = guard.entry.fd
        /\ guard.sys = guard.entry.sys

\* The guarded call raised under a complete redirection, and its exception
\* is about to reach the caller with everything restored.
C21_Witness ==
    /\ quiet
    /\ guard.pc = "raised"
    /\ guard.exc = "call"
    /\ guard.closes["sys.stdout"] = 1
    /\ guard.closes["devnull"] = 1
    /\ guard.entry.fd = [stdout |-> "stdout", stderr |-> "stderr"]
    /\ guard.fd = guard.entry.fd
    /\ guard.sys = guard.entry.sys

\* C22: an exception of the guarded call or of a failing setup or release
\* step is never swallowed, and the exception that reaches the caller is the
\* triggering one, not one raised while restoring.
C22_TriggeringExceptionReraised ==
    GuardOutcome # "none" =>
        /\ guard.trigger # "None" => GuardOutcome = "raised"
        /\ GuardOutcome = "raised" => guard.exc = guard.trigger

\* C23: on every exit path of the guard, a failing setup step included,
\* every descriptor the guard opened has been closed: nothing stays open
\* after the exit and nothing accumulates across calls.
C23_NoDescriptorLeak ==
    /\ guard.pc \in {"returned", "raised"} => guard.held = {}
    /\ guard.leaked = 0

\* C28: no descriptor the guard acquired is closed more than once on any
\* exit path, the one where the guarded call raises and both the finally
\* block and the error handler run included.
C28_SingleRelease == \A d \in Descriptors : guard.closes[d] <= 1

\* The guarded call raised, the finally block closed the five descriptors
\* and the error handler ran after it.
C28_Witness ==
    /\ quiet
    /\ guard.pc = "reraise"
    /\ guard.exc = "call"
    /\ \A d \in Descriptors : guard.closes[d] = 1
    /\ guard.held = {}

\* The fields of the Info value.
InfoFields ==
    {"phase", "status", "valid_actions", "score", "money", "action_mapped",
     "original_action", "mapped_action", "finished"}

\* C25: the info returned by reset() and by every step() carries the nine
\* fields of Info, its score and money are the tracked current_score and
\* current_money, and its valid_actions is the newly cached legal list.
C25_InfoFields ==
    ret.op \in {"reset", "step"} =>
        /\ DOMAIN info = InfoFields
        /\ info.score = current_score
        /\ info.money = current_money
        /\ info.valid_actions = last_valid_actions

\* C26: step_count is 0 after reset() and one more after every step(),
\* remapped or not; from the step that brings it to max_episode_steps on,
\* every step() returns terminated = true, whatever the engine gives.
C26_BoundedEpisode ==
    /\ ret.op = "reset" => step_count = 0
    /\ ret.op = "step" => step_count = pre.t.step_count + 1
    /\ (ret.op = "step" /\ step_count >= MaxEpisodeSteps) => ret.terminated

\* The step that used up the budget was a remapped one whose result neither
\* finished the run nor ended a blind, and it returned terminated.
C26_Witness ==
    /\ ret.op = "step"
    /\ step_count = MaxEpisodeSteps
    /\ pre.t.step_count = MaxEpisodeSteps - 1
    /\ ret.action # ret.mapped_action
    /\ step_result.status = "NeedsInput"
    /\ step_result.phase = "Shop"
    /\ ret.terminated

\* C27: after reset() and after every step(), previous_score = current_score
\* and previous_money = current_money, so the deltas of a step's reward are
\* the changes that step's own tracker update made to current_score and
\* current_money.
C27_PreviousFollowsCurrent ==
    /\ ret.op \in {"reset", "step"} =>
           previous_score = current_score /\ previous_money = current_money
    /\ ret.op = "step" =>
           /\ ret.score_reward = 100 * Max0(current_score - pre.t.current_score)
           /\ ret.money_reward = MONEY_POINTS * Max0(current_money - pre.t.current_money)

\* A step whose tracker update raised the money and lowered the score.
C27_Witness ==
    /\ ret.op = "step"
    /\ current_money > pre.t.current_money
    /\ current_score < pre.t.current_score
    /\ previous_money = current_money
    /\ previous_score = current_score
    /\ ret.money_reward > 0
    /\ ret.score_reward = 0

\* C29: the blind-completion bonus is in a step's reward exactly when the
\* step's result phase is RoundEnd and blind_started holds after the tracker
\* update, and a step that awards it returns terminated = true.
C29_BonusIffRoundEndStarted ==
    ret.op = "step" =>
        /\ ret.blind_bonus = BLIND_COMPLETION_BASE_REWARD <=>
               (step_result.phase = "RoundEnd" /\ blind_started)
        /\ ret.blind_bonus \in {0, BLIND_COMPLETION_BASE_REWARD}
        /\ ret.reward = ret.score_reward + ret.money_reward + STEP_REWARD
                        + ret.blind_bonus + ret.invalid_action_penalty
        /\ ret.blind_bonus # 0 => ret.terminated

\* The bonus was awarded on the RoundEnd of a started blind before the step
\* budget was reached, and withheld on a RoundEnd outside a blind.
C29_Witness ==
    /\ ret.op = "step"
    /\ step_result.phase = "RoundEnd"
    /\ blind_started
    /\ step_count < MaxEpisodeSteps
    /\ ret.blind_bonus = BLIND_COMPLETION_BASE_REWARD
    /\ ret.terminated

\* C30: in every reachable state, across any sequence of reset() and step()
\* calls, blind_finished implies blind_started.
C30_FinishedImpliesStarted == blind_finished => blind_started

\* Both flags stand after a reset() that followed a finished blind.
C30_Witness ==
    /\ ret.op = "reset"
    /\ pre.t.blind_finished
    /\ blind_finished
    /\ blind_started

C31_PlayingImpliesStarted ==
    /\ ret.op = "step" /\ step_result.phase = "Playing" =>
           blind_started /\ observation.game_info[7] = 1
    /\ blind_started => has_blind_at_start

\* A step() reached Playing from the shop right after a reset() on an
\* instance that had never started a blind.
C31_Witness ==
    /\ ret.op = "step"
    /\ step_result.phase = "Playing"
    /\ pre.t.prev_phase = "Shop"
    /\ ~pre.t.blind_started
    /\ ~pre.t.has_blind_at_start
    /\ blind_started

\* C32: after every step() whose result phase is Playing, blind_finished is
\* false in the tracked state and in the returned observation, in every
\* episode of an instance.
C32_PlayingImpliesNotFinished ==
    ret.op = "step" /\ step_result.phase = "Playing" =>
        ~blind_finished /\ observation.game_info[8] = 0

\* C33: the mask and the validator agree across calls: for every i in
\* [0, K), i is set in the mask of the observation a reset()/step() returned
\* exactly when the step(i) that follows at once goes through unchanged
\* (action_mapped false, mapped_action = i, the engine given i, no penalty);
\* and the list that step validates against is the valid_actions of the
\* info the preceding call returned.
C33_MaskAgreesWithValidator ==
    ret.op = "step" /\ pre.shown.any =>
        /\ CachedLegal = pre.shown.valid_actions
        /\ ret.action \in 0..(K - 1) =>
               (ret.action \in pre.shown.available_actions
                    <=> /\ ~info.action_mapped
                        /\ info.mapped_action = ret.action
                        /\ engine_arg.action = ret.action
                        /\ ret.invalid_action_penalty = 0)

\* A step() asked for an action the mask showed, not the first of the list,
\* and got it; the list had an entry that is not a position of the list.
C33_Witness ==
    /\ ret.op = "step"
    /\ pre.shown.any
    /\ Len(pre.shown.valid_actions) = 1
    /\ ret.action = pre.shown.valid_actions[1]
    /\ ret.action > 0
    /\ ret.action \in pre.shown.available_actions
    /\ ~info.action_mapped
    /\ engine_arg.action = ret.action
    /\ ret.invalid_action_penalty = 0

\* C34: with a deterministic engine, an episode started by reset() on an
\* environment that ran episodes before returns, at every call, the
\* observation, the reward, the flags and the info that a new environment
\* returns when it is started from the same seed and given the same
\* actions.
C34_EpisodeDeterminism == other.out = alone.out

\* The episode that is followed ended its first blind, having entered
\* Playing, every step having found a snapshot not below the one before.
BlindEnded ==
    /\ other.out.op = "step"
    /\ tally.live
    /\ tally.ended
    /\ tally.entries >= 1

\* The score_reward and money_reward paid over the episode come to the
\* final tracked score and 250 times the final tracked money, which are the
\* final absolute values less the baselines.
Telescoped ==
    /\ tally.score_paid = 100 * other.t.current_score
    /\ tally.money_paid = MONEY_POINTS * other.t.current_money
    /\ other.t.current_score = tally.score_seen - other.t.blind_score_at_start
    /\ other.t.current_money = tally.money_seen - other.t.blind_money_at_start

\* C35 as stated: within one episode from reset() to the end of its first
\* blind, snapshots being available and the absolute score and money never
\* decreasing, the score components of the rewards sum to the final
\* current_score and the money components to 250 times the final
\* current_money.
C35_RewardTelescopes == BlindEnded => Telescoped

\* C35, amended: the same, for an episode whose reset() probe is not in
\* Playing and whose steps enter Playing once before the blind ends.
C35_RewardTelescopesOneEntry ==
    BlindEnded /\ tally.entries = 1 /\ ~tally.probe_playing => Telescoped

\* A blind ended on an environment that had finished a blind in an earlier
\* episode, with a positive score paid in full.
C35_Witness ==
    /\ BlindEnded
    /\ tally.entries = 1
    /\ ~tally.probe_playing
    /\ tally.score_paid > 0
    /\ tally.money_paid > 0
    /\ other.calls > alone.calls
    /\ Telescoped

\* reset() got as far as starting the run.
RunStarted == ProbeCall \in Range(ret.engine_calls)

\* C36: _reset_engine() leaves the process in the working directory it was
\* entered in, on every way out: when it returns and when os.chdir, the
\* engine's constructor, a setter or the run start raises.  The tracked
\* state is reset when the run started and is left as it was when it did
\* not.
C36_ResetEngineRestoresCwd ==
    ret.op \in {"reset", "reset_raised"} =>
        /\ cwd = pre.cwd
        /\ ~RunStarted => TrackedState = pre.t
        /\ RunStarted =>
               /\ current_score = 0 /\ current_money = 0
               /\ previous_score = 0 /\ previous_money = 0
               /\ step_count = 0

\* The run start raised after an episode had taken steps: the directory is
\* the one before and the step count still stands.
C36_Witness ==
    /\ ret.op = "reset_raised"
    /\ ret.engine_calls = ResetEngineCalls
    /\ pre.t.step_count > 0
    /\ step_count = pre.t.step_count
    /\ cwd = pre.cwd

\* C37: _on_step() never raises.  When the wrapped _on_step() raises it
\* returns True; when the wrapped _on_step() returns, it returns that value;
\* when the callback is disabled it returns True and does not call the
\* wrapped callback.
C37_OnStepNeverRaises ==
    callback.last.hook = "_on_step" =>
        /\ callback.last.result \in {"True", "False"}
        /\ callback.last.wrapped \in Exceptions => callback.last.result = "True"
        /\ callback.last.wrapped \in {"True", "False"} =>
               callback.last.result = callback.last.wrapped
        /\ callback.last.was_disabled =>
               callback.last.result = "True" /\ ~callback.last.invoked
        /\ ~callback.last.was_disabled => callback.last.invoked

\* The wrapped _on_step() raised for the second time and True came back.
C37_Witness ==
    /\ callback.last.hook = "_on_step"
    /\ callback.last.invoked
    /\ callback.last.wrapped = "BrokenPipeError"
    /\ callback.last.result = "True"
    /\ callback.error_count = 2

\* C38: error_count grows by exactly one for each exception raised in
\* _on_step() and by nothing else; when it reaches max_errors the callback
\* is disabled; a disabled callback stays disabled and none of its four
\* hooks calls the wrapped callback; so the wrapped _on_step() fails at most
\* max_errors times.
C38_DisablesAfterMaxErrors ==
    /\ callback.error_count =
           callback.last.count_before
               + (IF callback.last.hook = "_on_step" /\ callback.last.wrapped \in Exceptions
                  THEN 1 ELSE 0)
    /\ callback.error_count >= max_errors => callback.disabled
    /\ callback.last.was_disabled => callback.disabled /\ ~callback.last.invoked
    /\ callback.failed <= max_errors

\* The tenth failure disabled the callback, and a later _on_rollout_start()
\* left the wrapped callback alone.
C38_Witness ==
    /\ callback.disabled
    /\ callback.error_count = max_errors
    /\ callback.failed = max_errors
    /\ callback.last.hook = "_on_rollout_start"
    /\ callback.last.was_disabled
    /\ ~callback.last.invoked

\* The order of run_full_scrape().
FullOrder == Append(Steps, "analyze_results")

====
